---- MODULE Spec2Model ----
(***************************************************************************)
(* A model of the wazerolift engine (src/internal/engine.go and the        *)
(* generator host callbacks of src/wazerolift.go): the compiled-module     *)
(* registry, the pending bodies collected by compile_done, the VM-context  *)
(* layout and registry, the executable regions and their finalizers.       *)
(***************************************************************************)
EXTENDS Integers, Sequences, FiniteSets, TLC

(***************************************************************************)
(* Bounds of the model.                                                    *)
(***************************************************************************)
NumModules == 3
NumInstances == 3
NumThreads == 2
MaxCompiles == 2
MaxBodyLen == 2
MaxCallEngines == 2
MaxShapeCount == 2
MaxShapeFuncs == 5
MaxStackSkew == 1
MaxArgs == 1
MaxCloses == 2
MaxRelocs == 1
MaxResults == 3
MaxSeed == 3
MaxLocals == 129

ModuleIDs == 1..NumModules
Instances == 1..NumInstances
HostInstances == 1..(NumInstances - 1)
Threads == 1..NumThreads
MainThread == CHOOSE t \in Threads : \A u \in Threads : t <= u
BodyLens == 1..MaxBodyLen
ModuleNames == {"env", "app"}

(***************************************************************************)
(* Module descriptors (engineext.Module), read-only to the engine.  The    *)
(* shapes vary with the id so that modules with and without imports,       *)
(* memories and code bodies all occur.  HostModuleID is a host module.     *)
(***************************************************************************)
HostModuleID == NumModules + 1

HostModule(m) == m = HostModuleID

CodeCount(m) == IF HostModule(m) THEN 0 ELSE (6 - m) % 3

ImportFuncCount(m) == IF HostModule(m) \/ m % 3 = 1 THEN 0 ELSE 1

LocalMemoriesCount(m) == IF HostModule(m) THEN 0 ELSE m % 2

ImportedMemoriesCount(m) == IF HostModule(m) \/ m % 3 = 1 THEN 0 ELSE 1

ModuleShape(m) ==
  [localMemories |-> LocalMemoriesCount(m),
   importedMemories |-> ImportedMemoriesCount(m),
   importFuncs |-> ImportFuncCount(m)]

(***************************************************************************)
(* The signature of function idx of module m (f.FunctionType()): its       *)
(* parameter and result value types.  Functions with and without           *)
(* parameters and results all occur.                                       *)
(***************************************************************************)
FunctionType(m, idx) ==
  [params |-> IF (m + idx) % 2 = 1
              THEN <<IF m % 2 = 1 THEN "i32" ELSE "i64">> ELSE <<>>,
   results |-> IF m % 2 = 1
               THEN <<IF idx % 2 = 0 THEN "i32" ELSE "i64">> ELSE <<>>]

SignatureKeys ==
  {FunctionType(m, idx) : m \in ModuleIDs, idx \in 0..(NumModules + 1)}

(***************************************************************************)
(* getOpaqueVmContextOffsets: the VM-context layout of a module shape.     *)
(* The code tracks the running offset and totalSize separately.            *)
(***************************************************************************)
localMemorySizeInOpaqueVMContext == 16
importedMemorySizeInOpaqueVMCContext == 8
importedFunctionSizeInOpaqueVMContext == 16

getOpaqueVmContextOffsets_totalSkipsImportedMemory(shape) ==
  LET localSize == IF shape.localMemories > 0
                   THEN localMemorySizeInOpaqueVMContext ELSE 0
      importedSize == IF shape.importedMemories > 0
                      THEN importedMemorySizeInOpaqueVMCContext ELSE 0
  IN [totalSize |-> localSize
                      + shape.importFuncs * importedFunctionSizeInOpaqueVMContext,
      localMemoryBegin |-> IF shape.localMemories > 0 THEN 0 ELSE -1,
      importedMemoryBegin |-> IF shape.importedMemories > 0 THEN localSize ELSE -1,
      importedFunctionsBegin |-> localSize + importedSize]

getOpaqueVmContextOffsets_importedMemoryAfterLocalSlot(shape) ==
  LET localSize == IF shape.localMemories > 0
                   THEN localMemorySizeInOpaqueVMContext ELSE 0
      importedSize == IF shape.importedMemories > 0
                      THEN importedMemorySizeInOpaqueVMCContext ELSE 0
  IN [totalSize |-> localSize + importedSize
                      + shape.importFuncs * importedFunctionSizeInOpaqueVMContext,
      localMemoryBegin |-> IF shape.localMemories > 0 THEN 0 ELSE -1,
      importedMemoryBegin |-> IF shape.importedMemories > 0
                              THEN localMemorySizeInOpaqueVMContext ELSE -1,
      importedFunctionsBegin |-> localSize + importedSize]

getOpaqueVmContextOffsets(shape) ==
  LET localSize == IF shape.localMemories > 0
                   THEN localMemorySizeInOpaqueVMContext ELSE 0
      importedSize == IF shape.importedMemories > 0
                      THEN importedMemorySizeInOpaqueVMCContext ELSE 0
  IN [totalSize |-> localSize + importedSize
                      + shape.importFuncs * importedFunctionSizeInOpaqueVMContext,
      localMemoryBegin |-> IF shape.localMemories > 0 THEN 0 ELSE -1,
      importedMemoryBegin |-> IF shape.importedMemories > 0 THEN localSize ELSE -1,
      importedFunctionsBegin |-> localSize + importedSize]

(***************************************************************************)
(* State.                                                                  *)
(*  modules    e.modules: module id -> compiled-module object (0: no key)  *)
(*  compiled   the compiledModule objects ever created, by object id       *)
(*  regions    the executable regions ever mapped, with their unmap count  *)
(*  finalizers the objects whose runtime finalizer is still attached       *)
(*  pendingCompiledFunctions  e.pendingCompiledFunctions (<<>>: no key)    *)
(*  vmctxs     e.vmctxs: instance -> vmContext (Nil: no key)               *)
(*  callEngines the call engines created so far                            *)
(*  pc         per thread, the position inside CompileModule               *)
(*  nCompiles  the number of CompileModule calls started                   *)
(*  result     what the last call that returns an error value returned    *)
(*             (CompileModule, NewModuleEngine, NewCallEngine), or a panic *)
(*  executed   what the last Call jumped to                                *)
(*  halted     the process was aborted by a panic                          *)
(*  paramsSetupCodes  e.paramsSetupCodes: signature key -> stub (0: no key) *)
(*  stubRegions the parameter-setup regions ever mapped, with unmap count  *)
(*  tornDown   the instances the host has closed                           *)
(*  hostThreads the number of host threads that call the engine            *)
(*  shape, layout, layoutAgain  inputs and outputs of the layout function  *)
(*  returned   what the last Call decoded from its results holder          *)
(*  generatorCall  what the last compileFunction wrote into the memory of  *)
(*             the code generator and passed to compile_function           *)
(***************************************************************************)
VARIABLES modules, compiled, regions, finalizers, pendingCompiledFunctions,
          vmctxs, callEngines, pc, nCompiles, result, executed, halted,
          paramsSetupCodes, stubRegions, tornDown,
          hostThreads, shape, layout, layoutAgain, returned, generatorCall

engineVars == <<modules, compiled, regions, finalizers, pendingCompiledFunctions,
                vmctxs, callEngines, pc, nCompiles, result, executed, halted,
                paramsSetupCodes, stubRegions, tornDown>>

layoutVars == <<hostThreads, shape, layout, layoutAgain, generatorCall>>

vars == <<modules, compiled, regions, finalizers, pendingCompiledFunctions,
          vmctxs, callEngines, pc, nCompiles, result, executed, halted,
          paramsSetupCodes, stubRegions, tornDown,
          hostThreads, shape, layout, layoutAgain, returned, generatorCall>>

Nil == [kind |-> "nil"]

Idle == [state |-> "idle"]

NoResult == [op |-> "none", kind |-> "none", msg |-> <<>>]

NoLayout == [totalSize |-> -1, localMemoryBegin |-> -1,
             importedMemoryBegin |-> -1, importedFunctionsBegin |-> -1]

Shapes == [localMemories : 0..MaxShapeCount, importedMemories : 0..MaxShapeCount,
           importFuncs : 0..MaxShapeFuncs]

NewEngine ==
  /\ modules = [m \in ModuleIDs |-> 0]
  /\ compiled = <<>>
  /\ regions = <<>>
  /\ finalizers = {}
  /\ pendingCompiledFunctions = [m \in ModuleIDs |-> <<>>]
  /\ vmctxs = [mi \in Instances |-> Nil]
  /\ callEngines = <<>>
  /\ pc = [t \in Threads |-> Idle]
  /\ nCompiles = 0
  /\ result = NoResult
  /\ executed = Nil
  /\ halted = FALSE
  /\ paramsSetupCodes = [k \in SignatureKeys |-> 0]
  /\ stubRegions = <<>>
  /\ tornDown = {}

Init ==
  /\ NewEngine
  /\ hostThreads = 1
  /\ shape = ModuleShape(1)
  /\ layout = NoLayout
  /\ layoutAgain = NoLayout
  /\ returned = Nil
  /\ generatorCall = Nil

ConcInit ==
  /\ NewEngine
  /\ hostThreads = NumThreads
  /\ shape = ModuleShape(1)
  /\ layout = NoLayout
  /\ layoutAgain = NoLayout
  /\ returned = Nil
  /\ generatorCall = Nil

AllIdle == \A t \in Threads : pc[t] = Idle

(***************************************************************************)
(* A host call is made by a host thread that is not inside CompileModule.  *)
(***************************************************************************)
HostThreadFree == \E t \in 1..hostThreads : pc[t] = Idle

RECURSIVE SumLens(_)
SumLens(bodies) ==
  IF bodies = <<>> THEN 0
  ELSE Len(Head(bodies).machineCode) + SumLens(Tail(bodies))

RECURSIVE ConcatCode_lastBodyFirst(_)
ConcatCode_lastBodyFirst(bodies) ==
  IF bodies = <<>> THEN <<>>
  ELSE ConcatCode_lastBodyFirst(Tail(bodies)) \o Head(bodies).machineCode

RECURSIVE ConcatCode(_)
ConcatCode(bodies) ==
  IF bodies = <<>> THEN <<>>
  ELSE Head(bodies).machineCode \o ConcatCode(Tail(bodies))

(***************************************************************************)
(* binary.LittleEndian.PutUint64: the eight bytes of v, lowest first.      *)
(***************************************************************************)
RECURSIVE LittleEndianBytes(_, _)
LittleEndianBytes(v, n) ==
  IF n = 0 THEN <<>> ELSE <<v % 256>> \o LittleEndianBytes(v \div 256, n - 1)

LittleEndianUint64(v) == LittleEndianBytes(v, 8)

PutUint64(buf, off, v) ==
  [k \in 1..Len(buf) |->
     IF k > off /\ k <= off + 8 THEN LittleEndianUint64(v)[k - off] ELSE buf[k]]

(***************************************************************************)
(* The offsets the engine reports to the code generator, computed from the *)
(* layout CompileModule has put into the compilation context; the u32      *)
(* results are kept as four little-endian bytes.                           *)
(***************************************************************************)
exportVmContextLocalMemoryOffset(offsets) ==
  LittleEndianBytes(offsets.localMemoryBegin, 4)

exportVmContextImportedMemoryOffset(offsets) ==
  LittleEndianBytes(offsets.importedMemoryBegin, 4)

exportVmContextImportedFunctionOffset_eightByteSlots(offsets, index) ==
  LittleEndianBytes(offsets.importedFunctionsBegin + index * 8, 4)

exportVmContextImportedFunctionOffset(offsets, index) ==
  LittleEndianBytes(offsets.importedFunctionsBegin + index * 16, 4)

(***************************************************************************)
(* The generator's output for function funcId in compile call `call`:      *)
(* `len` bytes of straight code, then one call instruction (an opcode byte *)
(* and a 4-byte slot) per callee, with one relocation record per slot.     *)
(* Every byte carries its value v and is tagged with the call, the         *)
(* function and its position.                                              *)
(***************************************************************************)
EmittedCode(call, funcId, len) ==
  [k \in 1..len |-> [call |-> call, fn |-> funcId, k |-> k, v |-> 144]]

EmittedCalls(call, funcId, len, callees) ==
  [k \in 1..(5 * Len(callees)) |->
     [call |-> call, fn |-> funcId, k |-> len + k,
      v |-> IF k % 5 = 1 THEN 232 ELSE 0]]

EmittedRelocs(len, callees) ==
  [j \in 1..Len(callees) |->
     [index |-> callees[j], offset |-> len + 5 * (j - 1) + 1]]

(***************************************************************************)
(* exportCompileDone: copy the code and the relocation records into a new  *)
(* pending body and append it to the module's list.                        *)
(***************************************************************************)
exportCompileDone(pending, id, body, relocs) ==
  [pending EXCEPT ![id] = Append(@, [machineCode |-> body, relocs |-> relocs])]

(***************************************************************************)
(* The stitch of CompileModule: body i starts at the running sum of the    *)
(* sizes of the bodies before it (offsets are 0-based byte offsets).       *)
(***************************************************************************)
executableOffsets_sizes(compiledFns) ==
  [i \in 1..Len(compiledFns) |-> Len(compiledFns[i].machineCode)]

executableOffsets(compiledFns) ==
  [i \in 1..Len(compiledFns) |-> SumLens(SubSeq(compiledFns, 1, i - 1))]

(***************************************************************************)
(* applyFunctionRelocations patches the bodies in place: the 4-byte slot   *)
(* of every relocation record gets the little-endian displacement from the *)
(* end of the slot to the callee's entry (it is called before the image is *)
(* mapped and is given no base address).  A record whose callee is not a   *)
(* local function of the offsets table is left alone.                      *)
(***************************************************************************)
PatchSlot(code, offset, disp) ==
  [k \in 1..Len(code) |->
     IF k > offset /\ k <= offset + 4
     THEN [code[k] EXCEPT !.v = LittleEndianBytes(disp, 4)[k - offset]]
     ELSE code[k]]

RECURSIVE PatchRelocs(_, _, _, _, _)
PatchRelocs(code, relocs, fnOffset, offsets, importedFns) ==
  IF relocs = <<>> THEN code
  ELSE LET r == Head(relocs)
           callee == r.index - importedFns
           patched == IF callee >= 0 /\ callee < Len(offsets)
                         /\ r.offset + 4 <= Len(code)
                      THEN PatchSlot(code, r.offset,
                                     offsets[callee + 1] - (fnOffset + r.offset + 4))
                      ELSE code
       IN PatchRelocs(patched, Tail(relocs), fnOffset, offsets, importedFns)

applyFunctionRelocations(importedFns, offsets, compiledFns) ==
  [j \in 1..Len(compiledFns) |->
     [compiledFns[j] EXCEPT
        !.machineCode = PatchRelocs(@, compiledFns[j].relocs, offsets[j],
                                    offsets, importedFns)]]

(***************************************************************************)
(* The compiledModule object CompileModule builds around a mapped region.  *)
(***************************************************************************)
NewCompiledModule(id, executable, offsets, vmOffsets) ==
  [executable |-> executable,
   executableOffsets |-> offsets,
   opaqueVmContextOffsets |-> vmOffsets,
   moduleID |-> id]

(***************************************************************************)
(* A panic nobody recovers aborts the process: the engine and everything   *)
(* it held are gone.                                                       *)
(***************************************************************************)
Panic(op, msg) ==
  /\ modules' = [m \in ModuleIDs |-> 0]
  /\ compiled' = <<>>
  /\ regions' = <<>>
  /\ finalizers' = {}
  /\ pendingCompiledFunctions' = [m \in ModuleIDs |-> <<>>]
  /\ vmctxs' = [mi \in Instances |-> Nil]
  /\ callEngines' = <<>>
  /\ pc' = [t \in Threads |-> Idle]
  /\ nCompiles' = 0
  /\ executed' = Nil
  /\ halted' = TRUE
  /\ result' = [op |-> op, kind |-> "panic", msg |-> <<msg>>]
  /\ paramsSetupCodes' = [k \in SignatureKeys |-> 0]
  /\ stubRegions' = <<>>
  /\ tornDown' = {}
  /\ returned' = Nil
  /\ UNCHANGED layoutVars

(***************************************************************************)
(* CompileModule, entry: a host module panics; otherwise the layout is     *)
(* computed and the loop over the code bodies starts.                      *)
(***************************************************************************)
CompileBegin(t, m) ==
  /\ ~halted
  /\ t \in 1..hostThreads
  /\ pc[t] = Idle
  /\ nCompiles < MaxCompiles
  /\ IF HostModule(m)
     THEN Panic("CompileModule", "TODO")
     ELSE /\ pc' = [pc EXCEPT ![t] = [state |-> "compiling", m |-> m, i |-> 0,
                                      call |-> nCompiles + 1]]
          /\ nCompiles' = nCompiles + 1
          /\ UNCHANGED <<modules, compiled, regions, finalizers,
                         pendingCompiledFunctions, vmctxs, callEngines, result,
                         executed, halted, layoutVars, returned, paramsSetupCodes, stubRegions, tornDown>>

(***************************************************************************)
(* The direct calls the generator may emit in the function thread t is     *)
(* compiling: up to MaxRelocs calls of local functions of the module.      *)
(***************************************************************************)
CalleeChoices(t) ==
  IF pc[t] = Idle THEN {<<>>}
  ELSE LET m == pc[t].m
           locals == ImportFuncCount(m)..(ImportFuncCount(m) + CodeCount(m) - 1)
       IN UNION {[1..n -> locals] : n \in 0..MaxRelocs}

(***************************************************************************)
(* One iteration of the loop: compileFunction succeeds, the generator      *)
(* having called compile_done once with the body it emitted.               *)
(***************************************************************************)
CompileFunctionDone(t, len, callees) ==
  /\ ~halted
  /\ pc[t] # Idle
  /\ pc[t].i < CodeCount(pc[t].m)
  /\ LET funcId == pc[t].i + ImportFuncCount(pc[t].m)
     IN pendingCompiledFunctions' =
          exportCompileDone(pendingCompiledFunctions, pc[t].m,
                            EmittedCode(pc[t].call, funcId, len)
                              \o EmittedCalls(pc[t].call, funcId, len, callees),
                            EmittedRelocs(len, callees))
  /\ pc' = [pc EXCEPT ![t].i = @ + 1]
  /\ UNCHANGED <<modules, compiled, regions, finalizers, vmctxs, callEngines,
                 nCompiles, result, executed, halted, layoutVars, returned, paramsSetupCodes, stubRegions, tornDown>>

(***************************************************************************)
(* One iteration of the loop: compileFunction returns an error, which      *)
(* CompileModule returns at once.                                          *)
(***************************************************************************)
CompileFunctionFails(t) ==
  /\ ~halted
  /\ pc[t] # Idle
  /\ pc[t].i < CodeCount(pc[t].m)
  /\ pc' = [pc EXCEPT ![t] = Idle]
  /\ result' = [op |-> "CompileModule", kind |-> "error", msg |-> <<"compile_function">>]
  /\ UNCHANGED <<modules, compiled, regions, finalizers, pendingCompiledFunctions,
                 vmctxs, callEngines, nCompiles, executed, halted, layoutVars, returned, paramsSetupCodes, stubRegions, tornDown>>

(***************************************************************************)
(* After the loop: the module has no pending entry.                        *)
(***************************************************************************)
CompileNoPending(t) ==
  /\ ~halted
  /\ pc[t] # Idle
  /\ pc[t].i = CodeCount(pc[t].m)
  /\ pendingCompiledFunctions[pc[t].m] = <<>>
  /\ Panic("CompileModule", "BUG")

(***************************************************************************)
(* After the loop: offsets are assigned and relocations applied (in place, *)
(* on the pending bodies), then mapping the image fails.                   *)
(***************************************************************************)
CompileMmapFails(t) ==
  /\ ~halted
  /\ pc[t] # Idle
  /\ pc[t].i = CodeCount(pc[t].m)
  /\ pendingCompiledFunctions[pc[t].m] # <<>>
  /\ LET id == pc[t].m
         compiledFns == pendingCompiledFunctions[id]
         offsets == executableOffsets(compiledFns)
     IN pendingCompiledFunctions' =
          [pendingCompiledFunctions EXCEPT
             ![id] = applyFunctionRelocations(ImportFuncCount(id), offsets, compiledFns)]
  /\ pc' = [pc EXCEPT ![t] = Idle]
  /\ result' = [op |-> "CompileModule", kind |-> "error", msg |-> <<"mmap">>]
  /\ UNCHANGED <<modules, compiled, regions, finalizers, vmctxs, callEngines,
                 nCompiles, executed, halted, layoutVars, returned, paramsSetupCodes, stubRegions, tornDown>>

(***************************************************************************)
(* After the loop: stitch, relocate, map, publish, attach the finalizer,   *)
(* delete the pending entry.                                               *)
(***************************************************************************)
CompilePublish_mapsUnpatched(t) ==
  /\ ~halted
  /\ pc[t] # Idle
  /\ pc[t].i = CodeCount(pc[t].m)
  /\ pendingCompiledFunctions[pc[t].m] # <<>>
  /\ LET id == pc[t].m
         compiledFns == pendingCompiledFunctions[id]
         offsets == executableOffsets(compiledFns)
         relocated == applyFunctionRelocations(ImportFuncCount(id), offsets, compiledFns)
         region == Len(regions) + 1
         obj == Len(compiled) + 1
     IN /\ regions' = Append(regions, [bytes |-> ConcatCode(compiledFns),
                                       size |-> SumLens(compiledFns),
                                       unmaps |-> 0])
        /\ compiled' = Append(compiled,
                              NewCompiledModule(id, region, offsets,
                                                getOpaqueVmContextOffsets(ModuleShape(id))))
        /\ modules' = [modules EXCEPT ![id] = obj]
        /\ finalizers' = finalizers \cup {obj}
        /\ pendingCompiledFunctions' = [pendingCompiledFunctions EXCEPT ![id] = <<>>]
  /\ pc' = [pc EXCEPT ![t] = Idle]
  /\ result' = [op |-> "CompileModule", kind |-> "ok", msg |-> <<>>]
  /\ UNCHANGED <<vmctxs, callEngines, nCompiles, executed, halted, layoutVars, returned, paramsSetupCodes, stubRegions, tornDown>>

CompilePublish(t) ==
  /\ ~halted
  /\ pc[t] # Idle
  /\ pc[t].i = CodeCount(pc[t].m)
  /\ pendingCompiledFunctions[pc[t].m] # <<>>
  /\ LET id == pc[t].m
         compiledFns == pendingCompiledFunctions[id]
         offsets == executableOffsets(compiledFns)
         relocated == applyFunctionRelocations(ImportFuncCount(id), offsets, compiledFns)
         region == Len(regions) + 1
         obj == Len(compiled) + 1
     IN /\ regions' = Append(regions, [bytes |-> ConcatCode(relocated),
                                       size |-> SumLens(compiledFns),
                                       unmaps |-> 0])
        /\ compiled' = Append(compiled,
                              NewCompiledModule(id, region, offsets,
                                                getOpaqueVmContextOffsets(ModuleShape(id))))
        /\ modules' = [modules EXCEPT ![id] = obj]
        /\ finalizers' = finalizers \cup {obj}
        /\ pendingCompiledFunctions' = [pendingCompiledFunctions EXCEPT ![id] = <<>>]
  /\ pc' = [pc EXCEPT ![t] = Idle]
  /\ result' = [op |-> "CompileModule", kind |-> "ok", msg |-> <<>>]
  /\ UNCHANGED <<vmctxs, callEngines, nCompiles, executed, halted, layoutVars, returned, paramsSetupCodes, stubRegions, tornDown>>

(***************************************************************************)
(* CompiledModuleCount: the number of keys of e.modules.                   *)
(***************************************************************************)
CompiledModuleCount == Cardinality({m \in ModuleIDs : modules[m] # 0})

(***************************************************************************)
(* DeleteCompiledModule: remove the registry entry of the module's id.     *)
(***************************************************************************)
DeleteCompiledModule_unmapsAtOnce(m) ==
  /\ ~halted
  /\ HostThreadFree
  /\ modules' = [modules EXCEPT ![m] = 0]
  /\ regions' = IF modules[m] # 0 /\ compiled[modules[m]].executable # 0
                THEN [regions EXCEPT ![compiled[modules[m]].executable].unmaps = @ + 1]
                ELSE regions
  /\ UNCHANGED <<compiled, finalizers, pendingCompiledFunctions, vmctxs,
                 callEngines, pc, nCompiles, result, executed, halted, layoutVars, returned, paramsSetupCodes, stubRegions, tornDown>>

DeleteCompiledModule_clearsRegistry(m) ==
  /\ ~halted
  /\ HostThreadFree
  /\ modules' = [id \in ModuleIDs |-> 0]
  /\ UNCHANGED <<compiled, regions, finalizers, pendingCompiledFunctions, vmctxs,
                 callEngines, pc, nCompiles, result, executed, halted, layoutVars, returned,
                 paramsSetupCodes, stubRegions, tornDown>>

DeleteCompiledModule(m) ==
  /\ ~halted
  /\ HostThreadFree
  /\ modules' = [modules EXCEPT ![m] = 0]
  /\ UNCHANGED <<compiled, regions, finalizers, pendingCompiledFunctions, vmctxs,
                 callEngines, pc, nCompiles, result, executed, halted, layoutVars, returned, paramsSetupCodes, stubRegions, tornDown>>

(***************************************************************************)
(* What the garbage collector can still reach from the engine: a compiled  *)
(* module is held by its registry entry and by the parent field of every   *)
(* vmContext (the registry of VM contexts never drops an entry, and call   *)
(* engines and importers hold VM contexts).                                *)
(***************************************************************************)
Reachable_registryOnly(c) == \E id \in ModuleIDs : modules[id] = c

Reachable(c) ==
  \/ \E id \in ModuleIDs : modules[id] = c
  \/ \E mi \in Instances : vmctxs[mi] # Nil /\ vmctxs[mi].parent = c

(***************************************************************************)
(* The finalizer CompileModule attaches to a compiled module: runs once    *)
(* the object is unreachable, releases the executable unless already nil.  *)
(***************************************************************************)
Finalizer(c) ==
  /\ ~halted
  /\ c \in finalizers
  /\ ~Reachable(c)
  /\ finalizers' = finalizers \ {c}
  /\ IF compiled[c].executable = 0
     THEN UNCHANGED <<compiled, regions>>
     ELSE /\ compiled' = [compiled EXCEPT ![c].executable = 0]
          /\ regions' = [regions EXCEPT ![compiled[c].executable].unmaps = @ + 1]
  /\ UNCHANGED <<modules, pendingCompiledFunctions, vmctxs, callEngines, pc,
                 nCompiles, result, executed, halted, layoutVars, returned, paramsSetupCodes, stubRegions, tornDown>>

FinalizerMunmapFails(c) ==
  /\ ~halted
  /\ c \in finalizers
  /\ ~Reachable(c)
  /\ compiled[c].executable # 0
  /\ Panic("finalizer", "compiler: failed to munmap executable")

(***************************************************************************)
(* Addresses.  An executable pointer is (region, offset); its numeric      *)
(* value is what is written into VM contexts.                              *)
(***************************************************************************)
RegionBase(r) == 65536 * r

ExecutableAddr(ptr) == RegionBase(ptr.region) + ptr.off

VmCtxBufferAddr(mi) == 16777216 + 4096 * mi

MemoryBufferAddr(mi) == 33554432 + 1048576 * mi

MemoryBufferLen(mi) == 65536 * mi

MemBufVariableAddr(mi) == 50331648 + 64 * mi

ImportedMemoryInstancePtr(mi) == 67108864 + 256 * mi

(***************************************************************************)
(* resolveFunctionExecutable: the entry of a locally defined function of   *)
(* the VM context's module; an imported index is a panic, and so is an     *)
(* index outside the offsets table or the executable.                      *)
(***************************************************************************)
resolveFunctionExecutable(vm, functionIndex) ==
  LET localIndex == functionIndex - Len(vm.importedFunctions)
      c == compiled[vm.parent]
  IN IF localIndex < 0 THEN [ok |-> FALSE, msg |-> "BUG: resolveFunction"]
     ELSE IF localIndex + 1 > Len(c.executableOffsets)
             \/ c.executable = 0
             \/ c.executableOffsets[localIndex + 1] >= regions[c.executable].size
          THEN [ok |-> FALSE, msg |-> "index out of range"]
          ELSE [ok |-> TRUE,
                ptr |-> [region |-> c.executable,
                         off |-> c.executableOffsets[localIndex + 1]]]

(***************************************************************************)
(* buildOpaqueVMContext: the opaque buffer of a vmContext whose parent,    *)
(* module and importedFunctions are set.                                   *)
(***************************************************************************)
RECURSIVE WriteImportedFunctions_vmContextFirst(_, _, _, _)
WriteImportedFunctions_vmContextFirst(buf, offset, imported, i) ==
  IF i > Len(imported) THEN buf
  ELSE WriteImportedFunctions_vmContextFirst(
         PutUint64(PutUint64(buf, offset,
                             vmctxs[imported[i].vmctx].opaqueVmContextPtr),
                   offset + 8, ExecutableAddr(imported[i].executable)),
         offset + 16, imported, i + 1)

RECURSIVE WriteImportedFunctions(_, _, _, _)
WriteImportedFunctions(buf, offset, imported, i) ==
  IF i > Len(imported) THEN buf
  ELSE WriteImportedFunctions(
         PutUint64(PutUint64(buf, offset, ExecutableAddr(imported[i].executable)),
                   offset + 8, vmctxs[imported[i].vmctx].opaqueVmContextPtr),
         offset + 16, imported, i + 1)

buildOpaqueVMContext(vm) ==
  LET vmOffsets == compiled[vm.parent].opaqueVmContextOffsets
      mi == vm.module
      zeroed == [k \in 1..vmOffsets.totalSize |-> 0]
      withLocal == IF vmOffsets.localMemoryBegin >= 0
                   THEN PutUint64(PutUint64(zeroed, vmOffsets.localMemoryBegin,
                                            MemBufVariableAddr(mi)),
                                  vmOffsets.localMemoryBegin + 8, MemoryBufferLen(mi))
                   ELSE zeroed
      withImported == IF vmOffsets.importedMemoryBegin >= 0
                      THEN PutUint64(withLocal, vmOffsets.importedMemoryBegin,
                                     ImportedMemoryInstancePtr(mi))
                      ELSE withLocal
  IN IF vmOffsets.totalSize = 0
     THEN [vm EXCEPT !.opaqueVmContext = <<>>, !.opaqueVmContextPtr = 0]
     ELSE [vm EXCEPT
             !.opaqueVmContext =
                WriteImportedFunctions(withImported, vmOffsets.importedFunctionsBegin,
                                       vm.importedFunctions, 1),
             !.opaqueVmContextPtr = VmCtxBufferAddr(mi)]

(***************************************************************************)
(* Whether every write of buildOpaqueVMContext falls inside the buffer     *)
(* (a slice expression out of range is a panic).                           *)
(***************************************************************************)
OpaqueWritesInRange(vm) ==
  LET vmOffsets == compiled[vm.parent].opaqueVmContextOffsets
  IN \/ vmOffsets.totalSize = 0
     \/ /\ vmOffsets.localMemoryBegin >= 0
             => vmOffsets.localMemoryBegin + 16 <= vmOffsets.totalSize
        /\ vmOffsets.importedMemoryBegin >= 0
             => vmOffsets.importedMemoryBegin + 8 <= vmOffsets.totalSize
        /\ vmOffsets.importedFunctionsBegin + 16 * Len(vm.importedFunctions)
             <= vmOffsets.totalSize

(***************************************************************************)
(* The imported functions the host hands to NewModuleEngine for a new      *)
(* instance of module m: one (instance, function index) per import; the    *)
(* index is a function index of the exporting instance's module when that  *)
(* instance is known to the engine.                                        *)
(***************************************************************************)
ImportTargets(mi) ==
  UNION {IF vmctxs[inst] = Nil
         THEN {[inst |-> inst, idx |-> 0]}
         ELSE {[inst |-> inst, idx |-> idx] :
                 idx \in 0..(ImportFuncCount(vmctxs[inst].moduleID)
                               + CodeCount(vmctxs[inst].moduleID) - 1)} :
         inst \in Instances \ ({mi} \cup tornDown)}

ImportChoices(m, mi) == [1..ImportFuncCount(m) -> ImportTargets(mi)]

MissingImport(imps) == \E i \in DOMAIN imps : vmctxs[imps[i].inst] = Nil

Resolved(imps) ==
  [i \in DOMAIN imps |-> resolveFunctionExecutable(vmctxs[imps[i].inst], imps[i].idx)]

(***************************************************************************)
(* NewModuleEngine(name, m, mi) for a new instance mi of module m whose    *)
(* imported functions are imps.  The imports are resolved first (a missing *)
(* VM context or an unresolvable index panics), then the module is looked  *)
(* up (absent: an error naming the module), then the VM context is built   *)
(* and registered.                                                         *)
(***************************************************************************)
NotCompiledError(name) ==
  <<"source module for", name, "must be compiled before instantiation">>

NewModuleEngine(name, m, mi, imps) ==
  /\ ~halted
  /\ HostThreadFree
  /\ vmctxs[mi] = Nil
  /\ IF MissingImport(imps)
     THEN Panic("NewModuleEngine", "BUG")
     ELSE IF \E i \in DOMAIN imps : ~Resolved(imps)[i].ok
     THEN Panic("NewModuleEngine",
                Resolved(imps)[CHOOSE i \in DOMAIN imps : ~Resolved(imps)[i].ok].msg)
     ELSE IF modules[m] = 0
     THEN /\ result' = [op |-> "NewModuleEngine", kind |-> "error",
                        msg |-> NotCompiledError(name)]
          /\ UNCHANGED <<modules, compiled, regions, finalizers,
                         pendingCompiledFunctions, vmctxs, callEngines, pc,
                         nCompiles, executed, halted, layoutVars, returned, paramsSetupCodes, stubRegions, tornDown>>
     ELSE LET vm == [parent |-> modules[m],
                     importedFunctions |->
                       [i \in DOMAIN imps |-> [executable |-> Resolved(imps)[i].ptr,
                                               vmctx |-> imps[i].inst]],
                     module |-> mi,
                     moduleID |-> m,
                     opaqueVmContext |-> <<>>,
                     opaqueVmContextPtr |-> 0]
          IN IF ~OpaqueWritesInRange(vm)
             THEN Panic("NewModuleEngine", "slice bounds out of range")
             ELSE /\ vmctxs' = [vmctxs EXCEPT ![mi] = buildOpaqueVMContext(vm)]
                  /\ result' = [op |-> "NewModuleEngine", kind |-> "ok", msg |-> <<>>]
                  /\ UNCHANGED <<modules, compiled, regions, finalizers,
                                 pendingCompiledFunctions, callEngines, pc,
                                 nCompiles, executed, halted, layoutVars, returned, paramsSetupCodes, stubRegions, tornDown>>

(***************************************************************************)
(* alignedStackTop: the address of the last byte of the stack, rounded     *)
(* down to a multiple of 16.                                               *)
(***************************************************************************)
initialStackSizeInBytes == 4096

alignedStackTop_pastTheEnd(base, len) ==
  LET stackAddr == base + len
  IN stackAddr - (stackAddr % 16)

alignedStackTop(base, len) ==
  LET stackAddr == base + len - 1
  IN stackAddr - (stackAddr % 16)

(***************************************************************************)
(* Where the allocator may place the stack of the n-th call engine (any    *)
(* 8-byte aligned address), its results holder, a parameter-setup stub,    *)
(* and the argument slice of a caller.                                     *)
(***************************************************************************)
StackBases_oneArena(n) == {83886080 + 8 * k : k \in 0..MaxStackSkew}

StackBases(n) == {83886080 + 8192 * n + 8 * k : k \in 0..MaxStackSkew}

ResultsHolderAddr(n) == 100663296 + 64 * n

ResultsHolderLen(results) == Len(results) * 8

StubRegionBase(r) == 117440512 + 256 * r

ParamsSliceAddr(ce) == 134217728 + 64 * ce

(***************************************************************************)
(* paramSetupFn: the parameter-setup stub of a signature, generated and    *)
(* mapped on first use and cached under the signature key.                 *)
(***************************************************************************)
paramSetupFn(key) ==
  IF paramsSetupCodes[key] # 0
  THEN [stub |-> paramsSetupCodes[key],
        codes |-> paramsSetupCodes,
        mapped |-> stubRegions]
  ELSE [stub |-> Len(stubRegions) + 1,
        codes |-> [paramsSetupCodes EXCEPT ![key] = Len(stubRegions) + 1],
        mapped |-> Append(stubRegions, [unmaps |-> 0])]

(***************************************************************************)
(* NewCallEngine on the VM context of instance mi for its function f       *)
(* (a function of another instance is a panic): the stack is allocated at  *)
(* `base`; stubOk tells whether paramSetupFn succeeds.                     *)
(***************************************************************************)
NewCallEngine(mi, fInstance, fIndex, base, stubOk) ==
  /\ ~halted
  /\ HostThreadFree
  /\ vmctxs[mi] # Nil
  /\ mi \notin tornDown
  /\ Len(callEngines) < MaxCallEngines
  /\ LET type == FunctionType(vmctxs[mi].moduleID, fIndex)
         n == Len(callEngines) + 1
         resolved == resolveFunctionExecutable(vmctxs[mi], fIndex)
         setup == paramSetupFn(type)
     IN IF fInstance # mi
        THEN Panic("NewCallEngine", "TODO")
        ELSE IF ~resolved.ok
        THEN Panic("NewCallEngine", resolved.msg)
        ELSE IF Len(type.params) > 0 /\ ~stubOk
        THEN /\ result' = [op |-> "NewCallEngine", kind |-> "error",
                           msg |-> <<"paramSetupFn">>]
             /\ UNCHANGED <<modules, compiled, regions, finalizers,
                            pendingCompiledFunctions, vmctxs, callEngines, pc,
                            nCompiles, executed, halted, layoutVars, returned,
                            paramsSetupCodes, stubRegions, tornDown>>
        ELSE /\ callEngines' =
                  Append(callEngines,
                         [vmCtx |-> mi,
                          executable |-> resolved.ptr,
                          stack |-> [base |-> base, len |-> initialStackSizeInBytes],
                          alignedStackTop |-> alignedStackTop(base, initialStackSizeInBytes),
                          results |-> type.results,
                          params |-> type.params,
                          resultsHolderLen |-> ResultsHolderLen(type.results),
                          resultsHolderPtr |-> IF Len(type.results) > 0
                                               THEN ResultsHolderAddr(n) ELSE 0,
                          setParamsExecutable |-> IF Len(type.params) > 0
                                                  THEN setup.stub ELSE 0])
             /\ paramsSetupCodes' = IF Len(type.params) > 0
                                    THEN setup.codes ELSE paramsSetupCodes
             /\ stubRegions' = IF Len(type.params) > 0
                               THEN setup.mapped ELSE stubRegions
             /\ result' = [op |-> "NewCallEngine", kind |-> "ok", msg |-> <<>>]
             /\ UNCHANGED <<modules, compiled, regions, finalizers,
                            pendingCompiledFunctions, vmctxs, pc, nCompiles,
                            executed, halted, layoutVars, returned, tornDown>>

(***************************************************************************)
(* Close: unmap the cached parameter-setup regions one after the other (in *)
(* the map's iteration order); the first failing unmap ends the loop and   *)
(* its error is returned.  `done` are the regions unmapped by this call.   *)
(***************************************************************************)
CachedStubs == {paramsSetupCodes[k] : k \in SignatureKeys} \ {0}

Close(done, fails) ==
  /\ ~halted
  /\ HostThreadFree
  /\ \A r \in CachedStubs : stubRegions[r].unmaps < MaxCloses
  /\ done \subseteq CachedStubs
  /\ IF fails THEN done # CachedStubs ELSE done = CachedStubs
  /\ stubRegions' = [r \in DOMAIN stubRegions |->
                       IF r \in done
                       THEN [stubRegions[r] EXCEPT !.unmaps = @ + 1]
                       ELSE stubRegions[r]]
  /\ result' = [op |-> "Close", kind |-> IF fails THEN "error" ELSE "ok",
                msg |-> IF fails THEN <<"munmap">> ELSE <<>>]
  /\ UNCHANGED <<modules, compiled, regions, finalizers, pendingCompiledFunctions,
                 vmctxs, callEngines, pc, nCompiles, executed, halted, layoutVars, returned,
                 paramsSetupCodes, tornDown>>

(***************************************************************************)
(* getResults: decode the results holder, one value per result type, into  *)
(* 64-bit values (kept as eight little-endian bytes).  A slice expression  *)
(* beyond the holder and a result type other than i32/i64/f32/f64 are      *)
(* panics.  `reads` lists the byte ranges the loop has read.               *)
(***************************************************************************)
ValueTypes == {"i32", "i64", "f32", "f64", "v128"}

getResults_eightByteSlots(resultTypes, resultsHolder) ==
  IF \E i \in DOMAIN resultTypes : resultTypes[i] \notin {"i32", "f32", "i64", "f64"}
  THEN [kind |-> "panic", msg |-> "TODO", ret |-> <<>>, reads |-> <<>>]
  ELSE [kind |-> "ok", msg |-> "",
        ret |-> [i \in DOMAIN resultTypes |->
                   IF resultTypes[i] \in {"i32", "f32"}
                   THEN SubSeq(resultsHolder, 8 * (i - 1) + 1, 8 * (i - 1) + 4)
                          \o <<0, 0, 0, 0>>
                   ELSE SubSeq(resultsHolder, 8 * (i - 1) + 1, 8 * (i - 1) + 8)],
        reads |-> [i \in DOMAIN resultTypes |->
                     [offset |-> 8 * (i - 1),
                      width |-> IF resultTypes[i] \in {"i32", "f32"} THEN 4 ELSE 8]]]

RECURSIVE getResultsLoop(_, _, _, _, _)
getResultsLoop(resultTypes, resultsHolder, i, offset, acc) ==
  IF i > Len(resultTypes)
  THEN acc
  ELSE IF resultTypes[i] \in {"i32", "f32"}
  THEN IF offset + 4 > Len(resultsHolder)
       THEN [acc EXCEPT !.kind = "panic", !.msg = "slice bounds out of range",
                        !.ret = <<>>]
       ELSE getResultsLoop(resultTypes, resultsHolder, i + 1, offset + 4,
              [acc EXCEPT !.ret = Append(@, SubSeq(resultsHolder, offset + 1, offset + 4)
                                              \o <<0, 0, 0, 0>>),
                          !.reads = Append(@, [offset |-> offset, width |-> 4])])
  ELSE IF resultTypes[i] \in {"i64", "f64"}
  THEN IF offset + 8 > Len(resultsHolder)
       THEN [acc EXCEPT !.kind = "panic", !.msg = "slice bounds out of range",
                        !.ret = <<>>]
       ELSE getResultsLoop(resultTypes, resultsHolder, i + 1, offset + 8,
              [acc EXCEPT !.ret = Append(@, SubSeq(resultsHolder, offset + 1, offset + 8)),
                          !.reads = Append(@, [offset |-> offset, width |-> 8])])
  ELSE [acc EXCEPT !.kind = "panic", !.msg = "TODO", !.ret = <<>>]

getResults(resultTypes, resultsHolder) ==
  getResultsLoop(resultTypes, resultsHolder, 1, 0,
                 [kind |-> "ok", msg |-> "", ret |-> <<>>, reads |-> <<>>])

(***************************************************************************)
(* What Call returns: the decoded results when the call engine has a       *)
(* results holder, no results otherwise.                                   *)
(***************************************************************************)
CallResults(resultTypes, resultsHolder) ==
  IF Len(resultsHolder) > 0
  THEN getResults(resultTypes, resultsHolder)
  ELSE [kind |-> "ok", msg |-> "", ret |-> <<>>, reads |-> <<>>]

(***************************************************************************)
(* The bytes the called function has left in a results holder of n bytes   *)
(* (bytes with and without the top bit set occur at every position).       *)
(***************************************************************************)
HolderBytes(n, seed) == [p \in 1..n |-> (200 + 37 * p + 61 * seed) % 256]

(***************************************************************************)
(* Call on a call engine with nargs arguments: what the entry thunk is     *)
(* handed (0 is the null pointer).                                         *)
(***************************************************************************)
Call_spillsIntoVmContext(ce, nargs) ==
  /\ ~halted
  /\ HostThreadFree
  /\ ce \in DOMAIN callEngines
  /\ callEngines[ce].vmCtx \notin tornDown
  /\ LET resultsHolder == HolderBytes(callEngines[ce].resultsHolderLen, ce + nargs)
         out == CallResults(callEngines[ce].results, resultsHolder)
     IN IF out.kind = "panic"
        THEN Panic("Call", out.msg)
        ELSE /\ executed' =
                  [callEngine |-> ce,
                   vmCtxPtr |-> vmctxs[callEngines[ce].vmCtx].opaqueVmContextPtr,
                   executable |-> callEngines[ce].executable,
                   mapped |-> regions[callEngines[ce].executable.region].unmaps = 0,
                   stackTop |-> callEngines[ce].alignedStackTop,
                   resultsPtr |-> callEngines[ce].resultsHolderPtr,
                   setupStub |-> IF nargs > 0
                                 THEN callEngines[ce].setParamsExecutable ELSE 0,
                   paramsPtr |-> IF nargs > 0 THEN ParamsSliceAddr(ce) ELSE 0]
             /\ returned' = [results |-> callEngines[ce].results,
                             resultsHolder |-> resultsHolder,
                             out |-> out]
             /\ vmctxs' = [vmctxs EXCEPT ![callEngines[ce].vmCtx].opaqueVmContext =
                             [k \in DOMAIN @ |-> IF k <= 8 THEN 255 ELSE @[k]]]
             /\ UNCHANGED <<modules, compiled, regions, finalizers, pendingCompiledFunctions,
                            callEngines, pc, nCompiles, result, halted, layoutVars,
                            paramsSetupCodes, stubRegions, tornDown>>

Call(ce, nargs) ==
  /\ ~halted
  /\ HostThreadFree
  /\ ce \in DOMAIN callEngines
  /\ callEngines[ce].vmCtx \notin tornDown
  /\ LET resultsHolder == HolderBytes(callEngines[ce].resultsHolderLen, ce + nargs)
         out == CallResults(callEngines[ce].results, resultsHolder)
     IN IF out.kind = "panic"
        THEN Panic("Call", out.msg)
        ELSE /\ executed' =
                  [callEngine |-> ce,
                   vmCtxPtr |-> vmctxs[callEngines[ce].vmCtx].opaqueVmContextPtr,
                   executable |-> callEngines[ce].executable,
                   mapped |-> regions[callEngines[ce].executable.region].unmaps = 0,
                   stackTop |-> callEngines[ce].alignedStackTop,
                   resultsPtr |-> callEngines[ce].resultsHolderPtr,
                   setupStub |-> IF nargs > 0
                                 THEN callEngines[ce].setParamsExecutable ELSE 0,
                   paramsPtr |-> IF nargs > 0 THEN ParamsSliceAddr(ce) ELSE 0]
             /\ returned' = [results |-> callEngines[ce].results,
                             resultsHolder |-> resultsHolder,
                             out |-> out]
             /\ UNCHANGED <<modules, compiled, regions, finalizers, pendingCompiledFunctions,
                            vmctxs, callEngines, pc, nCompiles, result, halted, layoutVars,
                            paramsSetupCodes, stubRegions, tornDown>>

(***************************************************************************)
(* The host closes instance mi.  The module engine NewModuleEngine hands   *)
(* out has no close function and the engine is not told: its state stays   *)
(* as it is.                                                               *)
(***************************************************************************)
InstanceTeardown(mi) ==
  /\ ~halted
  /\ HostThreadFree
  /\ vmctxs[mi] # Nil
  /\ mi \notin tornDown
  /\ tornDown' = tornDown \cup {mi}
  /\ UNCHANGED <<modules, compiled, regions, finalizers, pendingCompiledFunctions,
                 vmctxs, callEngines, pc, nCompiles, result, executed, halted,
                 layoutVars, returned, paramsSetupCodes, stubRegions>>

(***************************************************************************)
(* The functions of instance mi the host may ask a call engine for: its    *)
(* own functions, or (fInstance # mi) one it imports.                      *)
(***************************************************************************)
FunctionIndexes(mi) ==
  0..(ImportFuncCount(vmctxs[mi].moduleID) + CodeCount(vmctxs[mi].moduleID) - 1)

(***************************************************************************)
(* The layout function applied to arbitrary module shapes.                 *)
(***************************************************************************)
PickShape(sh) ==
  /\ shape' = sh
  /\ layout' = NoLayout
  /\ layoutAgain' = NoLayout
  /\ UNCHANGED <<hostThreads, returned, generatorCall, engineVars>>

ComputeLayout ==
  /\ layout = NoLayout
  /\ layout' = getOpaqueVmContextOffsets(shape)
  /\ UNCHANGED <<hostThreads, shape, layoutAgain, returned, generatorCall, engineVars>>

ComputeLayoutAgain ==
  /\ layout # NoLayout
  /\ layoutAgain = NoLayout
  /\ layoutAgain' = getOpaqueVmContextOffsets(shape)
  /\ UNCHANGED <<hostThreads, shape, layout, returned, generatorCall, engineVars>>

(***************************************************************************)
(* The decoding of Call applied to arbitrary result signatures and holder  *)
(* contents; the holder is the one NewCallEngine allocates for them.       *)
(***************************************************************************)
ResultSignatures == UNION {[1..n -> ValueTypes] : n \in 0..MaxResults}

ResultsInit ==
  /\ NewEngine
  /\ hostThreads = 1
  /\ shape = ModuleShape(1)
  /\ layout = NoLayout
  /\ layoutAgain = NoLayout
  /\ generatorCall = Nil
  /\ \E resultTypes \in ResultSignatures, seed \in 0..MaxSeed :
       returned = [results |-> resultTypes,
                   resultsHolder |-> HolderBytes(ResultsHolderLen(resultTypes), seed),
                   out |-> Nil]

GetResults ==
  /\ returned.out = Nil
  /\ returned' = [returned EXCEPT
                    !.out = CallResults(returned.results, returned.resultsHolder)]
  /\ UNCHANGED <<modules, compiled, regions, finalizers, pendingCompiledFunctions,
                 vmctxs, callEngines, pc, nCompiles, result, executed, halted,
                 paramsSetupCodes, stubRegions, tornDown, layoutVars>>

(***************************************************************************)
(* NewModuleEngine applied to modules of arbitrary shapes: the engine has  *)
(* compiled module 1 (two bodies of one byte, a local memory) and          *)
(* instantiated it as instance 1, and has compiled a module of shape       *)
(* `shape` with one body as object 2; that one is instantiated with every  *)
(* import bound to a function of instance 1.                               *)
(***************************************************************************)
ShapedModuleID == 2

ExporterVmContext ==
  [parent |-> 1,
   importedFunctions |-> <<>>,
   module |-> 1,
   moduleID |-> 1,
   opaqueVmContext |-> PutUint64(PutUint64([k \in 1..16 |-> 0], 0, MemBufVariableAddr(1)),
                                 8, MemoryBufferLen(1)),
   opaqueVmContextPtr |-> VmCtxBufferAddr(1)]

BuildInit ==
  /\ hostThreads = 1
  /\ shape \in Shapes
  /\ layout = NoLayout
  /\ layoutAgain = NoLayout
  /\ returned = Nil
  /\ generatorCall = Nil
  /\ modules = [m \in ModuleIDs |-> IF m <= ShapedModuleID THEN m ELSE 0]
  /\ regions = <<[bytes |-> EmittedCode(1, 0, 1) \o EmittedCode(1, 1, 1),
                  size |-> 2, unmaps |-> 0],
                 [bytes |-> EmittedCode(2, shape.importFuncs, 1),
                  size |-> 1, unmaps |-> 0]>>
  /\ compiled = <<NewCompiledModule(1, 1, <<0, 1>>,
                                    getOpaqueVmContextOffsets(ModuleShape(1))),
                  NewCompiledModule(ShapedModuleID, 2, <<0>>,
                                    getOpaqueVmContextOffsets(shape))>>
  /\ finalizers = {1, 2}
  /\ pendingCompiledFunctions = [m \in ModuleIDs |-> <<>>]
  /\ vmctxs = [mi \in Instances |-> IF mi = 1 THEN ExporterVmContext ELSE Nil]
  /\ callEngines = <<>>
  /\ pc = [t \in Threads |-> Idle]
  /\ nCompiles = 2
  /\ result = [op |-> "NewModuleEngine", kind |-> "ok", msg |-> <<>>]
  /\ executed = Nil
  /\ halted = FALSE
  /\ paramsSetupCodes = [k \in SignatureKeys |-> 0]
  /\ stubRegions = <<>>
  /\ tornDown = {}

PatternImports(n, k) == [i \in 1..n |-> [inst |-> 1, idx |-> (i - 1 + k) % 2]]

(***************************************************************************)
(* compileFunction: the function body handed to the code generator.  The   *)
(* LEB128 count of the locals, one (1, type) pair per local and the body   *)
(* are written into the generator's memory at the offset its allocator     *)
(* returned, and compile_function is called with that offset and           *)
(* bodySize.  A write outside the memory writes nothing.  WriteLocals is   *)
(* the loop over the locals: byte 1 at the running offset, the type after  *)
(* it.                                                                     *)
(***************************************************************************)
RECURSIVE EncodeUint32(_)
EncodeUint32(v) ==
  IF v < 128 THEN <<v>> ELSE <<(v % 128) + 128>> \o EncodeUint32(v \div 128)

MemoryWrite(mem, offset, bytes) ==
  IF offset + Len(bytes) > Len(mem) THEN mem
  ELSE [a \in 1..Len(mem) |->
          IF a > offset /\ a <= offset + Len(bytes) THEN bytes[a - offset] ELSE mem[a]]

WriteLocals_typeFirst(mem, offset, localTypes) ==
  [a \in 1..Len(mem) |->
     IF a > offset /\ a <= offset + 2 * Len(localTypes)
     THEN IF (a - offset) % 2 = 1 THEN localTypes[(a - offset + 1) \div 2] ELSE 1
     ELSE mem[a]]

WriteLocals(mem, offset, localTypes) ==
  [a \in 1..Len(mem) |->
     IF a > offset /\ a <= offset + 2 * Len(localTypes)
     THEN IF (a - offset) % 2 = 1 THEN 1 ELSE localTypes[(a - offset) \div 2]
     ELSE mem[a]]

compileFunction(mem, allocated, localTypes, body) ==
  LET locals == Len(localTypes)
      localNumLeb128 == EncodeUint32(locals)
      bodySize == Len(body) + Len(localNumLeb128) + locals * 2
      offset == allocated + Len(localNumLeb128)
  IN [memory |-> MemoryWrite(
                   WriteLocals(MemoryWrite(mem, allocated, localNumLeb128),
                               offset, localTypes),
                   offset + locals * 2, body),
      ptr |-> allocated,
      size |-> bodySize]

(***************************************************************************)
(* The inputs of compileFunction: the local types and the body of a code   *)
(* entry (module.CodeAt), the generator's memory and what its allocator    *)
(* returns (an offset with room for the request, or an error).             *)
(***************************************************************************)
ValueTypeBytes == <<127, 126, 125, 124, 123, 112, 111>>

LocalTypes(n, seed) ==
  [i \in 1..n |-> ValueTypeBytes[((i + seed) % Len(ValueTypeBytes)) + 1]]

BodyBytes(len) == [k \in 1..len |-> (11 + 3 * k) % 256]

AllocatorOffsets == {0, 8}

GeneratorMemory == [a \in 1..(8 + 2 * MaxLocals + MaxBodyLen + 8) |-> 170]

GeneratorInit ==
  /\ NewEngine
  /\ hostThreads = 1
  /\ shape = ModuleShape(1)
  /\ layout = NoLayout
  /\ layoutAgain = NoLayout
  /\ returned = Nil
  /\ \E n \in 0..MaxLocals, len \in 0..MaxBodyLen, allocated \in AllocatorOffsets,
        allocateOk \in BOOLEAN :
       generatorCall = [localTypes |-> LocalTypes(n, len),
                        body |-> BodyBytes(len),
                        memory |-> GeneratorMemory,
                        allocated |-> allocated,
                        allocateOk |-> allocateOk,
                        state |-> "start",
                        ptr |-> 0,
                        size |-> 0]

CompileFunctionCall ==
  /\ generatorCall.state = "start"
  /\ IF generatorCall.allocateOk
     THEN LET out == compileFunction(generatorCall.memory, generatorCall.allocated,
                                     generatorCall.localTypes, generatorCall.body)
          IN generatorCall' = [generatorCall EXCEPT !.memory = out.memory,
                                                    !.ptr = out.ptr,
                                                    !.size = out.size,
                                                    !.state = "called"]
     ELSE generatorCall' = [generatorCall EXCEPT !.state = "error"]
  /\ UNCHANGED <<engineVars, hostThreads, shape, layout, layoutAgain, returned>>

(***************************************************************************)
(* Specifications.  Spec: the host calls the engine from one thread, one   *)
(* call at a time (finalizers run at any time).  ConcSpec: CompileModule   *)
(* is called from several threads.  ChainSpec: the host instantiates up to *)
(* NumInstances instances that import from one another and closes them;    *)
(* Spec instantiates one instance fewer and makes call engines instead.    *)
(* CallSpec: the host makes up to MaxCallEngines call engines and calls    *)
(* them (Spec makes one fewer).                                            *)
(* RelocSpec: CompileModule with bodies that call local functions.         *)
(* LayoutSpec: the layout function on every module shape.                  *)
(***************************************************************************)
Next ==
  \/ \E m \in ModuleIDs \cup {HostModuleID} : CompileBegin(MainThread, m)
  \/ \E len \in BodyLens : CompileFunctionDone(MainThread, len, <<>>)
  \/ CompileFunctionFails(MainThread)
  \/ CompileNoPending(MainThread)
  \/ CompileMmapFails(MainThread)
  \/ CompilePublish(MainThread)
  \/ \E m \in ModuleIDs : DeleteCompiledModule(m)
  \/ \E name \in ModuleNames, m \in ModuleIDs, mi \in HostInstances :
       \E imps \in ImportChoices(m, mi) : NewModuleEngine(name, m, mi, imps)
  \/ \E mi \in HostInstances :
       vmctxs[mi] # Nil /\ Len(callEngines) < MaxCallEngines - 1 /\
       \E fInstance \in Instances, fIndex \in FunctionIndexes(mi) :
         \E base \in StackBases(Len(callEngines) + 1), stubOk \in BOOLEAN :
           NewCallEngine(mi, fInstance, fIndex, base, stubOk)
  \/ \E ce \in DOMAIN callEngines, nargs \in 0..MaxArgs : Call(ce, nargs)
  \/ \E done \in SUBSET CachedStubs, fails \in BOOLEAN : Close(done, fails)
  \/ \E c \in finalizers : Finalizer(c)
  \/ \E c \in finalizers : FinalizerMunmapFails(c)

Spec == Init /\ [][Next]_vars

ConcNext ==
  \/ \E t \in Threads, m \in ModuleIDs : CompileBegin(t, m)
  \/ \E t \in Threads, len \in BodyLens : CompileFunctionDone(t, len, <<>>)
  \/ \E t \in Threads : CompileFunctionFails(t)
  \/ \E t \in Threads : CompileNoPending(t)
  \/ \E t \in Threads : CompileMmapFails(t)
  \/ \E t \in Threads : CompilePublish(t)

ConcSpec == ConcInit /\ [][ConcNext]_vars

ChainNext ==
  \/ \E m \in ModuleIDs : CompileBegin(MainThread, m)
  \/ \E len \in BodyLens : CompileFunctionDone(MainThread, len, <<>>)
  \/ CompileNoPending(MainThread)
  \/ CompilePublish(MainThread)
  \/ \E m \in ModuleIDs : DeleteCompiledModule(m)
  \/ \E m \in ModuleIDs, mi \in Instances :
       \E imps \in ImportChoices(m, mi) : NewModuleEngine("app", m, mi, imps)
  \/ \E mi \in Instances : InstanceTeardown(mi)
  \/ \E c \in finalizers : Finalizer(c)

ChainSpec == Init /\ [][ChainNext]_vars

CallNext ==
  \/ \E m \in ModuleIDs : CompileBegin(MainThread, m)
  \/ \E len \in BodyLens : CompileFunctionDone(MainThread, len, <<>>)
  \/ CompileNoPending(MainThread)
  \/ CompilePublish(MainThread)
  \/ \E m \in ModuleIDs, mi \in HostInstances :
       \E imps \in ImportChoices(m, mi) : NewModuleEngine("app", m, mi, imps)
  \/ \E mi \in HostInstances : vmctxs[mi] # Nil /\
       \E fInstance \in Instances, fIndex \in FunctionIndexes(mi) :
         \E base \in StackBases(Len(callEngines) + 1), stubOk \in BOOLEAN :
           NewCallEngine(mi, fInstance, fIndex, base, stubOk)
  \/ \E ce \in DOMAIN callEngines, nargs \in 0..MaxArgs : Call(ce, nargs)

CallSpec == Init /\ [][CallNext]_vars

RelocNext ==
  \/ \E m \in ModuleIDs : CompileBegin(MainThread, m)
  \/ \E len \in BodyLens, callees \in CalleeChoices(MainThread) :
       CompileFunctionDone(MainThread, len, callees)
  \/ CompileFunctionFails(MainThread)
  \/ CompileNoPending(MainThread)
  \/ CompileMmapFails(MainThread)
  \/ CompilePublish(MainThread)

RelocSpec == Init /\ [][RelocNext]_vars

LayoutNext ==
  \/ \E sh \in Shapes : PickShape(sh)
  \/ ComputeLayout
  \/ ComputeLayoutAgain

LayoutSpec == Init /\ [][LayoutNext]_vars

ResultsNext == GetResults

ResultsSpec == ResultsInit /\ [][ResultsNext]_vars

BuildNext ==
  \E mi \in Instances \ {1}, k \in 0..1 :
    NewModuleEngine("app", ShapedModuleID, mi, PatternImports(shape.importFuncs, k))

BuildSpec == BuildInit /\ [][BuildNext]_vars

GeneratorNext == CompileFunctionCall

GeneratorSpec == GeneratorInit /\ [][GeneratorNext]_vars

(***************************************************************************)
(* Properties.                                                             *)
(***************************************************************************)
Mapped(r) == r # 0 /\ regions[r].unmaps = 0

Contains(msg, token) == \E i \in DOMAIN msg : msg[i] = token

(* C1: whenever no CompileModule call is in progress, the engine holds no  *)
(* pending bodies for any module id (a failed call rolled its bodies back, *)
(* a successful call removed them).                                        *)
C1_NoPendingBodiesWhenIdle ==
  AllIdle => \A m \in ModuleIDs : pendingCompiledFunctions[m] = <<>>

(* The compiled module published for m by compile call `call` has exactly  *)
(* CodeCount(m) offsets, and offsets[i] is where the first byte emitted in *)
(* that call for function i + imported_count lies in the executable.       *)
PublishedRoundTrip(m, call) ==
  /\ modules[m] # 0
  /\ LET c == compiled[modules[m]]
     IN /\ Len(c.executableOffsets) = CodeCount(m)
        /\ \A i \in 1..Len(c.executableOffsets) :
             /\ c.executableOffsets[i] < regions[c.executable].size
             /\ regions[c.executable].bytes[c.executableOffsets[i] + 1]
                  = [call |-> call, fn |-> i - 1 + ImportFuncCount(m), k |-> 1,
                     v |-> 144]

(* C2: after any sequence of CompileModule calls, every successful         *)
(* CompileModule of m publishes an offsets table with exactly CodeCount(m) *)
(* entries, offsets[i] being the position in the executable of the first   *)
(* byte emitted during this call for function i + imported_count.          *)
C2_SuccessfulCompilePublishesRoundTripOffsets ==
  [][\A t \in Threads, m \in ModuleIDs, call \in 1..MaxCompiles :
       (pc[t] # Idle /\ pc[t].m = m /\ pc[t].call = call /\ CompilePublish(t))
         => PublishedRoundTrip(m, call)']_vars

(* C3: NewModuleEngine for a module whose id is not in the registry, for   *)
(* any instance with or without imported functions, returns an error whose *)
(* message contains the module name and leaves the VM-context registry     *)
(* unchanged.                                                              *)
C3_NotCompiledIsAnErrorNamingTheModule ==
  [][\A name \in ModuleNames, m \in ModuleIDs, mi \in Instances :
       \A imps \in ImportChoices(m, mi) :
         (modules[m] = 0 /\ NewModuleEngine(name, m, mi, imps))
           => /\ result'.kind = "error"
              /\ Contains(result'.msg, name)
              /\ vmctxs' = vmctxs]_vars

(* C4: NewModuleEngine for an instance one of whose imported-from          *)
(* instances has no VM context returns an error (the process is not        *)
(* aborted) and registers no VM context for the new instance.              *)
C4_MissingImportedVmContextIsAnError ==
  [][\A name \in ModuleNames, m \in ModuleIDs, mi \in Instances :
       \A imps \in ImportChoices(m, mi) :
         (MissingImport(imps) /\ NewModuleEngine(name, m, mi, imps))
           => /\ result'.kind = "error"
              /\ ~halted'
              /\ vmctxs'[mi] = Nil]_vars

(* C5: under concurrent CompileModule calls at most one CompileModule      *)
(* executes at a time, so the steps of two calls never interleave.         *)
C5_AtMostOneCompileModuleAtATime ==
  \A t1, t2 \in Threads : (pc[t1] # Idle /\ pc[t2] # Idle) => t1 = t2

(* C6: each executable region is unmapped at most once over its whole      *)
(* life, across CompileModule (recompilation included),                    *)
(* DeleteCompiledModule, NewModuleEngine and finalizer runs.               *)
C6_RegionUnmappedAtMostOnce ==
  \A r \in DOMAIN regions : regions[r].unmaps <= 1

(* A region was unmapped, and its module id has been compiled again.       *)
C6_Witness_UnmappedAfterRecompile ==
  \E c1, c2 \in DOMAIN compiled :
    /\ c1 < c2
    /\ compiled[c1].moduleID = compiled[c2].moduleID
    /\ compiled[c1].executable = 0
    /\ \E r \in DOMAIN regions : regions[r].unmaps = 1

(* C7: an executable region is never unmapped while its module is in the   *)
(* registry or while a VM context (of its own instances or of importers)   *)
(* or a call engine refers to it; a Call after DeleteCompiledModule never  *)
(* executes unmapped code.                                                 *)
C7_NoUnmapWhileReferenced ==
  /\ \A m \in ModuleIDs :
       modules[m] # 0 => Mapped(compiled[modules[m]].executable)
  /\ \A mi \in Instances :
       vmctxs[mi] # Nil =>
         /\ Mapped(compiled[vmctxs[mi].parent].executable)
         /\ \A i \in DOMAIN vmctxs[mi].importedFunctions :
              Mapped(vmctxs[mi].importedFunctions[i].executable.region)
  /\ \A ce \in DOMAIN callEngines : Mapped(callEngines[ce].executable.region)
  /\ executed # Nil => executed.mapped

(* A call engine was called after its module was deleted from the registry.*)
C7_Witness_CallAfterDelete ==
  /\ executed # Nil
  /\ modules[vmctxs[callEngines[executed.callEngine].vmCtx].moduleID] = 0

(* C8: every compiled module observable in the registry is fully built:    *)
(* its offsets table has an entry for every local function and its         *)
(* executable is mapped with length equal to the sum of the body sizes.    *)
C8_RegistryHoldsOnlyFullyBuiltModules ==
  \A m \in ModuleIDs :
    modules[m] # 0 =>
      LET c == compiled[modules[m]]
      IN /\ \A i \in 1..CodeCount(m) : i \in DOMAIN c.executableOffsets
         /\ Mapped(c.executable)
         /\ regions[c.executable].size = Len(regions[c.executable].bytes)

(* C9: for every module shape the computed layout satisfies                *)
(* imported_functions_begin + 16 * ImportFuncCount = total_size.           *)
C9_ImportedFunctionsEndAtTotalSize ==
  layout # NoLayout =>
    layout.importedFunctionsBegin + 16 * shape.importFuncs = layout.totalSize

(* The layout of a shape with both memories and imported functions.        *)
C9_Witness_LayoutWithMemoriesAndImports ==
  /\ layout # NoLayout
  /\ shape.localMemories > 0
  /\ shape.importedMemories > 0
  /\ shape.importFuncs > 1

C11_ZeroCodeModuleCompiles ==
  [][\A t \in Threads :
       (/\ pc[t] # Idle
        /\ CodeCount(pc[t].m) = 0
        /\ pc'[t] = Idle
        /\ result'.msg # <<"mmap">>)
         => /\ ~halted'
            /\ result'.kind = "ok"
            /\ modules'[pc[t].m] # 0
            /\ LET c == compiled'[modules'[pc[t].m]]
               IN /\ c.executableOffsets = <<>>
                  /\ regions'[c.executable].size = 0
                  /\ c.opaqueVmContextOffsets
                       = getOpaqueVmContextOffsets(ModuleShape(pc[t].m))]_vars

(* C12: for every call engine, the stack top handed to the entry thunk on  *)
(* every Call is a multiple of 16 and lies inside that call engine's own   *)
(* stack buffer: base <= stack_top < base + len.                           *)
C12_StackTopAlignedInsideOwnStack ==
  /\ \A ce \in DOMAIN callEngines :
       /\ callEngines[ce].alignedStackTop % 16 = 0
       /\ callEngines[ce].stack.base <= callEngines[ce].alignedStackTop
       /\ callEngines[ce].alignedStackTop
            < callEngines[ce].stack.base + callEngines[ce].stack.len
  /\ executed # Nil =>
       LET stack == callEngines[executed.callEngine].stack
       IN /\ executed.stackTop % 16 = 0
          /\ stack.base <= executed.stackTop
          /\ executed.stackTop < stack.base + stack.len

(* A Call was made on a call engine whose stack does not start at a        *)
(* multiple of 16.                                                         *)
C12_Witness_CallOnSkewedStack ==
  /\ executed # Nil
  /\ callEngines[executed.callEngine].stack.base % 16 # 0

(* C13: once NewModuleEngine has returned a VM context, no later engine    *)
(* operation changes the contents of its opaque buffer or the buffer's     *)
(* address, and the opaque pointer a Call hands to compiled code is the    *)
(* address of buffer[0].                                                   *)
C13_VmContextBufferNeverChanges ==
  [][~halted' =>
       /\ \A mi \in Instances :
            vmctxs[mi] # Nil =>
              /\ vmctxs'[mi] # Nil
              /\ vmctxs'[mi].opaqueVmContext = vmctxs[mi].opaqueVmContext
              /\ vmctxs'[mi].opaqueVmContextPtr = vmctxs[mi].opaqueVmContextPtr
       /\ executed' # Nil =>
            LET mi == callEngines'[executed'.callEngine].vmCtx
            IN vmctxs'[mi].opaqueVmContext # <<>> =>
                 executed'.vmCtxPtr = VmCtxBufferAddr(mi)]_vars

(* After a Close, a Call was made on an instance whose buffer is not       *)
(* empty and whose module has been deleted from the registry.              *)
C13_Witness_CallAfterCloseAndDelete ==
  /\ executed # Nil
  /\ result.op = "Close"
  /\ vmctxs[callEngines[executed.callEngine].vmCtx].opaqueVmContext # <<>>
  /\ modules[vmctxs[callEngines[executed.callEngine].vmCtx].moduleID] = 0

C15_LocalMemorySlotHoldsBufferAddressAndLength ==
  \A mi \in Instances :
    (vmctxs[mi] # Nil /\ LocalMemoriesCount(vmctxs[mi].moduleID) > 0) =>
      LET begin == compiled[vmctxs[mi].parent].opaqueVmContextOffsets.localMemoryBegin
          buf == vmctxs[mi].opaqueVmContext
      IN /\ SubSeq(buf, begin + 1, begin + 8)
             = LittleEndianUint64(MemoryBufferAddr(mi))
         /\ SubSeq(buf, begin + 9, begin + 16)
             = LittleEndianUint64(MemoryBufferLen(mi))

(* C16: once a module has been deleted from the registry and every         *)
(* instance created from it, and every instance importing from those, has  *)
(* been torn down, the VM-context registry holds no entry of those         *)
(* instances (so that the module's executable can be released).            *)
C16_TornDownInstancesLeaveTheRegistry ==
  \A mi \in tornDown :
    \/ vmctxs[mi] = Nil
    \/ LET m == vmctxs[mi].moduleID
           ofModule == {o \in Instances : vmctxs[o] # Nil /\ vmctxs[o].moduleID = m}
           importers == {o \in Instances :
                           /\ vmctxs[o] # Nil
                           /\ \E i \in DOMAIN vmctxs[o].importedFunctions :
                                vmctxs[o].importedFunctions[i].vmctx \in ofModule}
       IN ~(modules[m] = 0 /\ (ofModule \cup importers) \subseteq tornDown)

(* The entry a function index of an instantiated instance stands for: a    *)
(* local function's own entry, an imported function's resolved entry.      *)
UltimateEntry(inst, idx) ==
  LET vm == vmctxs[inst]
      imported == ImportFuncCount(vm.moduleID)
  IN IF idx >= imported
     THEN [region |-> compiled[vm.parent].executable,
           off |-> compiled[vm.parent].executableOffsets[idx - imported + 1]]
     ELSE vm.importedFunctions[idx + 1].executable

(* C20: foreign-entry resolution returns, for a local function index, the  *)
(* address executable[offsets[index - imported_count]] of the VM context's *)
(* compiled module, and for an imported index the entry of the function in *)
(* the module that ultimately defines it; it terminates (without aborting) *)
(* for every chain of instantiated modules.                                *)
C20_ResolutionFollowsTheImportChain ==
  [][\A mi \in Instances :
       (vmctxs[mi] = Nil /\ (halted' \/ vmctxs'[mi] # Nil)) =>
         \A m \in ModuleIDs :
           \A imps \in ImportChoices(m, mi) :
             (/\ ~MissingImport(imps)
              /\ modules[m] # 0
              /\ NewModuleEngine("app", m, mi, imps))
               => /\ ~halted'
                  /\ \A i \in DOMAIN imps :
                       vmctxs'[mi].importedFunctions[i].executable
                         = UltimateEntry(imps[i].inst, imps[i].idx)]_vars

(* C17: CompiledModuleCount goes up by one exactly when a CompileModule of *)
(* an id that is not registered succeeds and down by one exactly when a    *)
(* registered id is deleted, so it always is the number of ids compiled    *)
(* successfully and not deleted since; DeleteCompiledModule(m) removes the *)
(* entry of m only (a no-op when absent) and leaves the other entries, the *)
(* pending bodies and the VM-context registry unchanged; a failed          *)
(* CompileModule does not change the count.                                *)
C17_CountTracksCompilesAndDeletes ==
  [][~halted' =>
       LET published == {m \in ModuleIDs :
                           \E t \in Threads :
                             /\ pc[t] # Idle
                             /\ pc[t].m = m
                             /\ pc'[t] = Idle
                             /\ result'.kind = "ok"}
           deleted == {m \in ModuleIDs : modules[m] # 0 /\ DeleteCompiledModule(m)}
       IN /\ \A m \in published :
               /\ modules'[m] # 0
               /\ \A o \in ModuleIDs \ {m} : modules'[o] = modules[o]
          /\ \A m \in ModuleIDs :
               DeleteCompiledModule(m) =>
                 /\ modules'[m] = 0
                 /\ \A o \in ModuleIDs \ {m} : modules'[o] = modules[o]
                 /\ pendingCompiledFunctions' = pendingCompiledFunctions
                 /\ vmctxs' = vmctxs
          /\ CompiledModuleCount' =
               CompiledModuleCount
                 + Cardinality({m \in published : modules[m] = 0})
                 - Cardinality(deleted)]_vars

(* Two different modules were compiled and one of them was deleted.        *)
C17_Witness_OneOfTwoDeleted ==
  /\ CompiledModuleCount = 1
  /\ Len(compiled) = 2
  /\ compiled[1].moduleID # compiled[2].moduleID
  /\ \A c \in DOMAIN compiled : compiled[c].executable # 0

(* C18: when Close ends, every cached parameter-setup region has been      *)
(* unmapped exactly once (also when Close is called a second time), unless *)
(* an unmap failed, which is fatal: Close does not return in that case.    *)
C18_CloseUnmapsEveryStubOnceOrIsFatal ==
  [][(result'.op = "Close" /\ (result' # result \/ stubRegions' # stubRegions)) =>
       /\ result'.kind = "ok"
       /\ \A r \in CachedStubs : stubRegions'[r].unmaps = 1]_vars

(* C19: on every Call the results pointer handed to the entry thunk is     *)
(* null exactly when the signature has no results, and the parameter-setup *)
(* stub and the params pointer are both null when the signature has no     *)
(* parameters and both non-null when it has, whatever argument slice the   *)
(* caller supplies.                                                        *)
C19_NullPointersFollowTheSignature ==
  executed # Nil =>
    LET ce == callEngines[executed.callEngine]
    IN /\ (executed.resultsPtr = 0) <=> (ce.results = <<>>)
       /\ ce.params = <<>> => (executed.setupStub = 0 /\ executed.paramsPtr = 0)
       /\ ce.params # <<>> => (executed.setupStub # 0 /\ executed.paramsPtr # 0)

(* A 4-byte little-endian slot read as a signed 32-bit displacement.       *)
SignedLittleEndian32(b) ==
  b[1] + 256 * b[2] + 65536 * b[3]
    + 16777216 * (IF b[4] >= 128 THEN b[4] - 256 ELSE b[4])

(* A successful CompileModule ends in thread t.                            *)
PublishStep(t) ==
  /\ pc[t] # Idle
  /\ pc'[t] = Idle
  /\ result'.op = "CompileModule"
  /\ result'.kind = "ok"

C22_OffsetsAreRunningSumsOfBodySizes ==
  [][\A t \in Threads :
       PublishStep(t) =>
         LET fns == pendingCompiledFunctions[pc[t].m]
             c == compiled'[modules'[pc[t].m]]
             offsets == c.executableOffsets
             n == Len(fns)
         IN /\ Len(offsets) = n
            /\ offsets[1] = 0
            /\ \A i \in 1..(n - 1) :
                 /\ offsets[i + 1] = offsets[i] + Len(fns[i].machineCode)
                 /\ offsets[i] <= offsets[i + 1]
            /\ regions'[c.executable].size = offsets[n] + Len(fns[n].machineCode)
            /\ Len(regions'[c.executable].bytes) = regions'[c.executable].size]_vars

(* A compiled module with two bodies of different sizes, the second with a *)
(* call, was published.                                                    *)
C22_Witness_TwoBodiesPublished ==
  \E m \in ModuleIDs :
    /\ modules[m] # 0
    /\ Len(compiled[modules[m]].executableOffsets) = 2
    /\ compiled[modules[m]].executableOffsets[2] = 2
    /\ regions[compiled[modules[m]].executable].size > 4

(* C23, as stated: for every stack buffer with base address base and       *)
(* length len, the stack top computed by the call engine equals            *)
(* base + len - ((base + len) mod 16).                                     *)
C23_StackTopRoundsDownFromOnePastTheEnd ==
  \A ce \in DOMAIN callEngines :
    LET stack == callEngines[ce].stack
    IN callEngines[ce].alignedStackTop
         = stack.base + stack.len - ((stack.base + stack.len) % 16)

(* C23, amended: the stack top is the address of the buffer's last byte    *)
(* rounded down to a multiple of 16, that is the largest multiple of 16    *)
(* not above base + len - 1.                                               *)
C23_StackTopRoundsDownFromLastByte ==
  \A ce \in DOMAIN callEngines :
    LET stack == callEngines[ce].stack
        top == callEngines[ce].alignedStackTop
    IN /\ top % 16 = 0
       /\ top <= stack.base + stack.len - 1
       /\ stack.base + stack.len - 1 < top + 16

(* Two call engines exist, one whose stack ends at a multiple of 16 (where *)
(* the two formulas differ) and one whose stack does not.                  *)
C23_Witness_AlignedAndSkewedStacks ==
  \E c1, c2 \in DOMAIN callEngines :
    /\ (callEngines[c1].stack.base + callEngines[c1].stack.len) % 16 = 0
    /\ (callEngines[c2].stack.base + callEngines[c2].stack.len) % 16 # 0

(***************************************************************************)
(* C24: Call returns one value per result; result k is read at the sum of  *)
(* the widths (4 for i32/f32, 8 for i64/f64) of the results before it,     *)
(* 4-byte values are zero-extended to 64 bits, no read leaves the holder   *)
(* of 8 * len(results) bytes, and any other result type is fatal.          *)
(***************************************************************************)
WidthOf(vt) == IF vt \in {"i32", "f32"} THEN 4 ELSE 8

RECURSIVE WidthsBefore(_, _)
WidthsBefore(types, k) ==
  IF k <= 1 THEN 0 ELSE WidthsBefore(types, k - 1) + WidthOf(types[k - 1])

C24_ResultsDecodedAtRunningOffsets ==
  (returned # Nil /\ returned.out # Nil) =>
    LET types == returned.results
        holder == returned.resultsHolder
        out == returned.out
        supported == \A i \in DOMAIN types : types[i] \in {"i32", "i64", "f32", "f64"}
    IN /\ Len(holder) = 8 * Len(types)
       /\ supported =>
            /\ out.kind = "ok"
            /\ Len(out.ret) = Len(types)
            /\ Len(out.reads) = Len(types)
            /\ \A k \in DOMAIN types :
                 LET off == WidthsBefore(types, k)
                     w == WidthOf(types[k])
                 IN /\ out.reads[k] = [offset |-> off, width |-> w]
                    /\ off + w <= Len(holder)
                    /\ Len(out.ret[k]) = 8
                    /\ \A b \in 1..w : out.ret[k][b] = holder[off + b]
                    /\ \A b \in (w + 1)..8 : out.ret[k][b] = 0
       /\ ~supported => out.kind = "panic"

C24_Witness_MixedWidthsWithTopBitSet ==
  /\ returned # Nil
  /\ returned.out # Nil
  /\ returned.results = <<"i32", "i64", "f32">>
  /\ returned.out.kind = "ok"
  /\ returned.out.ret[1][4] >= 128
  /\ returned.out.ret[3][4] >= 128

(***************************************************************************)
(* C25: in CompileModule all local functions are compiled, then the        *)
(* offsets are assigned, then the relocations are applied, then the image  *)
(* is mapped, then the compiled module is published; the bytes handed to   *)
(* the mapper are the concatenation, in function-index order, of the       *)
(* bodies as they are after relocation patching.  (When mapping fails the  *)
(* bodies are already patched and nothing is published.)                   *)
(***************************************************************************)
MmapFailStep(t) ==
  /\ pc[t] # Idle
  /\ pc'[t] = Idle
  /\ result'.op = "CompileModule"
  /\ result'.msg = <<"mmap">>

PatchedByte(fns, offsets, importedFns, j, k) ==
  LET code == fns[j].machineCode
      relocs == fns[j].relocs
      slots == {q \in DOMAIN relocs : k > relocs[q].offset /\ k <= relocs[q].offset + 4}
  IN IF slots = {} THEN code[k]
     ELSE LET r == relocs[CHOOSE q \in slots : TRUE]
              disp == offsets[r.index - importedFns + 1] - (offsets[j] + r.offset + 4)
          IN [code[k] EXCEPT !.v = LittleEndianBytes(disp, 4)[k - r.offset]]

Uint32Value(b) == b[1] + 256 * b[2] + 65536 * b[3] + 16777216 * b[4]

C26_ReportedOffsetsAreWhereInstantiationWrites ==
  \A mi \in Instances \ {1} :
    vmctxs[mi] # Nil =>
      LET reported == getOpaqueVmContextOffsets(shape)
          buf == vmctxs[mi].opaqueVmContext
          imported == vmctxs[mi].importedFunctions
      IN /\ Len(imported) = shape.importFuncs
         /\ \A i \in 1..shape.importFuncs :
              LET off == Uint32Value(exportVmContextImportedFunctionOffset(reported, i - 1))
              IN /\ off + 16 <= Len(buf)
                 /\ SubSeq(buf, off + 1, off + 8)
                      = LittleEndianUint64(ExecutableAddr(imported[i].executable))
                 /\ SubSeq(buf, off + 9, off + 16)
                      = LittleEndianUint64(VmCtxBufferAddr(1))
         /\ shape.localMemories > 0 =>
              LET off == Uint32Value(exportVmContextLocalMemoryOffset(reported))
              IN /\ off + 16 <= Len(buf)
                 /\ SubSeq(buf, off + 1, off + 8)
                      = LittleEndianUint64(MemBufVariableAddr(mi))
                 /\ SubSeq(buf, off + 9, off + 16)
                      = LittleEndianUint64(MemoryBufferLen(mi))
         /\ shape.importedMemories > 0 =>
              LET off == Uint32Value(exportVmContextImportedMemoryOffset(reported))
              IN /\ off + 8 <= Len(buf)
                 /\ SubSeq(buf, off + 1, off + 8)
                      = LittleEndianUint64(ImportedMemoryInstancePtr(mi))

(* An instance of a module with a local memory, an imported memory and     *)
(* several imported functions has been built.                              *)
C26_Witness_BothMemoriesAndThreeImports ==
  \E mi \in Instances \ {1} :
    /\ vmctxs[mi] # Nil
    /\ shape.localMemories > 0
    /\ shape.importedMemories > 0
    /\ shape.importFuncs >= 3
    /\ Len(vmctxs[mi].opaqueVmContext) = 16 + 8 + 16 * shape.importFuncs

(***************************************************************************)
(* C27: for a function with n local declarations of types t_1..t_n and     *)
(* body bytes B, the bytes written into generator memory and passed to     *)
(* compile_function are LEB128(n), then the pairs (1, t_1) ... (1, t_n),   *)
(* then B, and the size passed is the length of that sequence; nothing     *)
(* else in the memory is written.                                          *)
(***************************************************************************)
Leb128Of(n) == IF n < 128 THEN <<n>> ELSE <<128 + (n % 128), n \div 128>>

C27_GeneratorReceivesCountPairsAndBody ==
  (generatorCall # Nil /\ generatorCall.state = "called") =>
    LET types == generatorCall.localTypes
        n == Len(types)
        B == generatorCall.body
        mem == generatorCall.memory
        ptr == generatorCall.ptr
        size == generatorCall.size
        leb == Leb128Of(n)
        L == Len(leb)
    IN /\ n < 16384
       /\ ptr = generatorCall.allocated
       /\ size = L + 2 * n + Len(B)
       /\ ptr + size <= Len(mem)
       /\ \A k \in 1..L : mem[ptr + k] = leb[k]
       /\ \A i \in 1..n : /\ mem[ptr + L + 2 * i - 1] = 1
                          /\ mem[ptr + L + 2 * i] = types[i]
       /\ \A k \in 1..Len(B) : mem[ptr + L + 2 * n + k] = B[k]
       /\ \A a \in 1..Len(mem) :
            (a <= ptr \/ a > ptr + size) => mem[a] = GeneratorMemory[a]

(* A function with so many locals that their count takes two LEB128 bytes, *)
(* and a body that is not empty, has been handed to the generator at an    *)
(* offset that is not zero.                                                *)
C27_Witness_TwoByteCountAndBody ==
  /\ generatorCall # Nil
  /\ generatorCall.state = "called"
  /\ Len(generatorCall.localTypes) > 128
  /\ Len(generatorCall.body) > 1
  /\ generatorCall.ptr > 0

(***************************************************************************)
(* C28: two distinct call engines (for the same or different functions or  *)
(* instances) have disjoint stack buffers and disjoint results buffers,    *)
(* and a call engine presents the same stack top and the same results      *)
(* buffer on every one of its calls.                                       *)
(***************************************************************************)
RangesDisjoint(a, alen, b, blen) == a + alen <= b \/ b + blen <= a

CallEngineBuffersDisjoint ==
  \A a, b \in DOMAIN callEngines :
    a # b =>
      /\ RangesDisjoint(callEngines[a].stack.base, callEngines[a].stack.len,
                        callEngines[b].stack.base, callEngines[b].stack.len)
      /\ (callEngines[a].resultsHolderLen > 0 /\ callEngines[b].resultsHolderLen > 0) =>
           RangesDisjoint(callEngines[a].resultsHolderPtr, callEngines[a].resultsHolderLen,
                          callEngines[b].resultsHolderPtr, callEngines[b].resultsHolderLen)

C28_CallEnginesShareNoBufferAndKeepTheirs ==
  [][~halted' =>
       /\ CallEngineBuffersDisjoint'
       /\ \A ce \in DOMAIN callEngines :
            /\ ce \in DOMAIN callEngines'
            /\ callEngines'[ce].stack = callEngines[ce].stack
            /\ callEngines'[ce].alignedStackTop = callEngines[ce].alignedStackTop
            /\ callEngines'[ce].resultsHolderPtr = callEngines[ce].resultsHolderPtr
            /\ callEngines'[ce].resultsHolderLen = callEngines[ce].resultsHolderLen
       /\ executed' # Nil =>
            LET ce == callEngines'[executed'.callEngine]
            IN /\ executed'.stackTop = ce.alignedStackTop
               /\ executed'.stackTop > ce.stack.base
               /\ executed'.stackTop < ce.stack.base + ce.stack.len
               /\ executed'.resultsPtr = ce.resultsHolderPtr]_vars

(* Two call engines of the same function, which has a result, exist and    *)
(* the second has been called after the first.                             *)
C28_Witness_TwoEnginesOfOneFunctionCalled ==
  /\ Len(callEngines) = 2
  /\ callEngines[1].vmCtx = callEngines[2].vmCtx
  /\ callEngines[1].executable = callEngines[2].executable
  /\ callEngines[1].resultsHolderLen > 0
  /\ executed # Nil
  /\ executed.callEngine = 2
  /\ executed.resultsPtr # callEngines[1].resultsHolderPtr

====
